---- MODULE Spec2Model ----
(***************************************************************************)
(* Graph Space (geomstats/stratified_geometry/graphspace.py): the          *)
(* permutation action of GraphSpace.permute and the quotient metric of     *)
(* GraphSpaceGeometry (dist, geodesic, id_matching, faq_matching).         *)
(*                                                                         *)
(* Arrays are records [ndim, data].  A matrix (ndim = 2) is a tuple of     *)
(* rows, a batch (ndim = 3) a tuple of matrices, a permutation a tuple of  *)
(* node indices.  Python indexes from 0, tuples from 1: At(s, i) is s[i].  *)
(* Entries are integers; the metric is kept as the squared Frobenius       *)
(* distance so that it stays an integer.                                   *)
(***************************************************************************)
EXTENDS Integers, Sequences, FiniteSets, TLC

\* GraphSpace(nodes=3): the node count of the space.
Nodes == 3

\* Adjacency entries range over 0..MaxVal.
MaxVal == 1
\* Single graphs have at most MaxEdges nonzero entries.
MaxEdges == 2
\* Batches hold 1..MaxBatch items.
MaxBatch == 2
\* A dist/geodesic/matcher call receives at most MaxItems graphs in all.
MaxItems == 4

NodeIdx == 0 .. (Nodes - 1)

\* Python's s[i] on a 0-indexed sequence.
At(s, i) == s[i + 1]

\* The tuple <<f(1), ..., f(n)>>.
RECURSIVE Tabulate(_, _)
Tabulate(f(_), n) == IF n = 0 THEN <<>> ELSE Append(Tabulate(f, n - 1), f(n))

\* f(1) + ... + f(n).
RECURSIVE Sum(_, _)
Sum(f(_), n) == IF n = 0 THEN 0 ELSE Sum(f, n - 1) + f(n)

\* Python's list(range(n)).
Range(n) == Tabulate(LAMBDA k : k - 1, n)

----------------------------------------------------------------------------
(* Input domains *)

AllMatrices == [1 .. Nodes -> [1 .. Nodes -> 0 .. MaxVal]]

EdgeCount(m) ==
    Cardinality({c \in (1 .. Nodes) \X (1 .. Nodes) : m[c[1]][c[2]] # 0})

\* Single graphs.
Graphs == {m \in AllMatrices : EdgeCount(m) <= MaxEdges}

\* The graph whose only nonzero entry is v on the edge i -> j.
EdgeGraph(i, j, v) ==
    Tabulate(LAMBDA r : Tabulate(LAMBDA c : IF r = i + 1 /\ c = j + 1 THEN v ELSE 0, Nodes), Nodes)

\* Graphs that populate batches: the empty graph and the unweighted graphs
\* with one edge i -> i+1 of the directed cycle.
PoolGraphs ==
    {EdgeGraph(0, 0, 0)} \cup {EdgeGraph(i, (i + 1) % Nodes, 1) : i \in NodeIdx}

\* Bijections of {0..nodes-1}; position i holds the image of node i.
Perms == {p \in [1 .. Nodes -> NodeIdx] : \A i, j \in 1 .. Nodes : p[i] = p[j] => i = j}

Batches(k) == [1 .. k -> PoolGraphs]
PermBatches(k) == [1 .. k -> Perms]

Single(m) == [ndim |-> 2, data |-> m]
Batch(ms) == [ndim |-> 3, data |-> ms]
Scalar(v) == [ndim |-> 0, data |-> v]
Vector(vs) == [ndim |-> 1, data |-> vs]
PermOne(p) == [ndim |-> 1, data |-> p]
PermList(ps) == [ndim |-> 2, data |-> ps]
NoArray == [ndim |-> -1, data |-> <<>>]

\* Arrays of different rank are never equal.
ArrEq(x, y) == x.ndim = y.ndim /\ x.data = y.data

Returned(v) == [kind |-> "return", error |-> "", message |-> "", value |-> v]
Raised(e, m) == [kind |-> "raise", error |-> e, message |-> m, value |-> NoArray]
NoOutcome == [kind |-> "none", error |-> "", message |-> "", value |-> NoArray]

----------------------------------------------------------------------------
(* Backend and total space (geomstats.backend, Matrices) *)

\* gs.ones(n)
Ones(n) == Tabulate(LAMBDA k : 1, n)

\* gs.array_from_sparse: zeros of target_shape with data[k] written at indices[k].
ArrayFromSparse(data, indices, rows, cols) ==
    Tabulate(LAMBDA i : Tabulate(LAMBDA j :
        IF \E k \in 1 .. Len(indices) : indices[k] = <<i - 1, j - 1>>
        THEN data[CHOOSE k \in 1 .. Len(indices) : indices[k] = <<i - 1, j - 1>>]
        ELSE 0, cols), rows)

\* gs.transpose
Transpose(m) == Tabulate(LAMBDA i : Tabulate(LAMBDA j : m[j][i], Nodes), Nodes)

\* gs.matmul
MatMul(a, b) ==
    Tabulate(LAMBDA i : Tabulate(LAMBDA j :
        Sum(LAMBDA k : a[i][k] * b[k][j], Nodes), Nodes), Nodes)

\* Matrices.mul(a, b, c): the product a b c.
Mul(a, b, c) == MatMul(MatMul(a, b), c)

----------------------------------------------------------------------------
(* GraphSpace.permute *)

\* gs.all(gs.array(nodes) == gs.array(p)): the integer nodes is compared with
\* every entry of p.
FastPath(p) == \A k \in 1 .. Len(p) : p[k] = Nodes

\* Variant: the coordinates are zipped the other way round, (p[i], i).
IndicesSwapped(p) == Tabulate(LAMBDA k : <<At(p, k - 1), At(Range(Nodes), k - 1)>>, Nodes)

\* Variant: the row coordinates start at 1 instead of 0.
IndicesFromOne(p) == Tabulate(LAMBDA k : <<k, At(p, k - 1)>>, Nodes)

\* list(zip(list(range(nodes)), p))
Indices(p) == Tabulate(LAMBDA k : <<At(Range(Nodes), k - 1), At(p, k - 1)>>, Nodes)

PermutationMatrix(p) == ArrayFromSparse(Ones(Nodes), Indices(p), Nodes, Nodes)

\* Variant: the permutation matrix is not transposed on the right.
PermuteOneNoTranspose(g, p) ==
    IF FastPath(p)
    THEN g
    ELSE LET permutation_matrix == PermutationMatrix(p)
         IN  Mul(permutation_matrix, g, permutation_matrix)

\* One pass of the loop body for graph g and permutation p.
PermuteOne(g, p) ==
    IF FastPath(p)
    THEN g
    ELSE LET permutation_matrix == PermutationMatrix(p)
         IN  Mul(permutation_matrix, g, Transpose(permutation_matrix))

\* Variant: every permutation is applied to the first graph.
PermuteLoopFirst(graphs, perms) ==
    IF Len(perms) > Len(graphs)
    THEN Raised("IndexError", "index out of bounds for axis 0")
    ELSE Returned(Tabulate(LAMBDA i : PermuteOne(graphs[1], perms[i]), Len(perms)))

\* The loop over enumerate(permutation): graphs[i] is read for every i.
PermuteLoop(graphs, perms) ==
    IF Len(perms) > Len(graphs)
    THEN Raised("IndexError", "index out of bounds for axis 0")
    ELSE Returned(Tabulate(LAMBDA i : PermuteOne(graphs[i], perms[i]), Len(perms)))

\* permute(graph_to_permute, permutation) on array inputs.
Permute(graph, permutation) ==
    IF graph.ndim < 3
    THEN Returned(Single(PermuteLoop(<<graph.data>>, <<permutation>>).value[1]))
    ELSE LET r == PermuteLoop(graph.data, permutation)
         IN  IF r.kind = "raise" THEN r ELSE Returned(Batch(r.value))

\* What one pass of the loop appends to result: the input graph itself, or
\* the product built from the permutation matrix.
Branch(p) == IF FastPath(p) THEN "graph" ELSE "total_space.mul"

\* What the loop appended, pass by pass, for the pairs it completed.
PermuteSteps(graph, permutation) ==
    LET graphs == IF graph.ndim < 3 THEN <<graph.data>> ELSE graph.data
        perms == IF graph.ndim < 3 THEN <<permutation>> ELSE permutation
        passes == IF Len(perms) <= Len(graphs) THEN Len(perms) ELSE Len(graphs)
    IN  Tabulate(LAMBDA i : Branch(perms[i]), passes)

----------------------------------------------------------------------------
(* Collaborators of the geometry: the solver and the total-space metric *)

\* The overlap of a with b relabelled by perm: trace(a^T b[perm][:, perm]).
Objective(a, b, perm) ==
    Sum(LAMBDA i : Sum(LAMBDA j :
        a[i][j] * At(At(b, At(perm, i - 1)), At(perm, j - 1)), Nodes), Nodes)

\* The largest overlap any relabelling of b reaches.
BestObjective(a, b) ==
    LET scores == {Objective(a, b, q) : q \in Perms}
    IN  CHOOSE v \in scores : \A w \in scores : w <= v

IsMaximizer(a, b, perm) == Objective(a, b, perm) = BestObjective(a, b)

\* gs.linalg.quadratic_assignment(a, b, options={"maximize": True}).  The
\* solver is approximate and deterministic: it answers a maximizer displaced
\* by the relabelling `solver`; the identity relabelling is the exact solver.
QuadraticAssignment(a, b, solver) ==
    \* the first maximizer, then displaced
    LET top == BestObjective(a, b)
        best == CHOOSE perm \in Perms : Objective(a, b, perm) = top
    IN  Tabulate(LAMBDA i : At(best, At(solver, i - 1)), Nodes)

\* The squared Frobenius distance of two matrices.
SquaredNorm(a, b) ==
    Sum(LAMBDA i : Sum(LAMBDA j :
        (a[i][j] - b[i][j]) * (a[i][j] - b[i][j]), Nodes), Nodes)

\* Two batch lengths broadcast when they are equal or one of them is 1.
Broadcasts(x, y) ==
    \/ x.ndim = 2
    \/ y.ndim = 2
    \/ Len(x.data) = Len(y.data)
    \/ Len(x.data) = 1
    \/ Len(y.data) = 1

BroadcastLen(x, y) ==
    IF x.ndim = 2 THEN Len(y.data)
    ELSE IF y.ndim = 2 THEN Len(x.data)
    ELSE IF Len(x.data) >= Len(y.data) THEN Len(x.data) ELSE Len(y.data)

\* Item i of x when x is broadcast to n items.
Item(x, i) ==
    IF x.ndim = 2 THEN x.data
    ELSE IF Len(x.data) = 1 THEN x.data[1] ELSE x.data[i]

\* total_space_metric.dist(x, y): a scalar for two matrices, else one
\* distance per item.
MetricDist(x, y) ==
    IF x.ndim = 2 /\ y.ndim = 2
    THEN Returned(Scalar(SquaredNorm(x.data, y.data)))
    ELSE IF Broadcasts(x, y)
    THEN Returned(Vector(Tabulate(LAMBDA i : SquaredNorm(Item(x, i), Item(y, i)),
                                  BroadcastLen(x, y))))
    ELSE Raised("ValueError", "operands could not be broadcast together")

\* The curve from initial to end.
Path(initial, end) == [ndim |-> -2, data |-> <<initial, end>>]

\* total_space_metric.geodesic(x, y)
MetricGeodesic(x, y) ==
    IF Broadcasts(x, y)
    THEN Returned(Path(x, y))
    ELSE Raised("ValueError", "operands could not be broadcast together")

----------------------------------------------------------------------------
(* GraphSpaceGeometry *)

PassSingleAsBase == "Align a set of graphs to one graphs,Pass the single graphs as base_graph"
SingleShouldBeBase ==
    "The method can align a set of graphs to one graphs,but the single graphs should be passed as base_graph"

\* zip(xs, ys) stops at the shorter argument.
ZipLen(xs, ys) == IF Len(xs) <= Len(ys) THEN Len(xs) ELSE Len(ys)

\* faq_matching(base_graph, graph_to_permute)
FaqMatching(base_graph, graph_to_permute, solver) ==
    LET l_base == base_graph.ndim
        l_obj == graph_to_permute.ndim
    IN  IF l_base = l_obj /\ l_obj = 3
        THEN Returned(PermList(Tabulate(
                LAMBDA i : QuadraticAssignment(base_graph.data[i], graph_to_permute.data[i], solver),
                ZipLen(base_graph.data, graph_to_permute.data))))
        ELSE IF l_base = l_obj /\ l_obj = 2
        THEN Returned(PermOne(QuadraticAssignment(base_graph.data, graph_to_permute.data, solver)))
        ELSE IF l_base < l_obj
        THEN LET stacked == Tabulate(LAMBDA i : base_graph.data, Len(graph_to_permute.data))
             IN  Returned(PermList(Tabulate(
                    LAMBDA i : QuadraticAssignment(stacked[i], graph_to_permute.data[i], solver),
                    ZipLen(stacked, graph_to_permute.data))))
        ELSE Raised("ValueError", PassSingleAsBase)

\* Variant: every ordering answered is the rotation [1, ..., nodes-1, 0].
IdMatchingRotated(base_graph, graph_to_permute) ==
    LET l_base == base_graph.ndim
        l_obj == graph_to_permute.ndim
        rotated == Tabulate(LAMBDA k : k % Nodes, Nodes)
    IN  IF (l_base = l_obj /\ l_obj = 3) \/ l_base < l_obj
        THEN Returned(PermList(Tabulate(LAMBDA i : rotated, Len(graph_to_permute.data))))
        ELSE IF l_base = l_obj /\ l_obj = 2
        THEN Returned(PermOne(rotated))
        ELSE Raised("ValueError", SingleShouldBeBase)

\* Variant: the orderings are counted on the base graph, len(base_graph).
IdMatchingLenBase(base_graph, graph_to_permute) ==
    LET l_base == base_graph.ndim
        l_obj == graph_to_permute.ndim
    IN  IF (l_base = l_obj /\ l_obj = 3) \/ l_base < l_obj
        THEN Returned(PermList(Tabulate(LAMBDA i : Range(Nodes), Len(base_graph.data))))
        ELSE IF l_base = l_obj /\ l_obj = 2
        THEN Returned(PermOne(Range(Nodes)))
        ELSE Raised("ValueError", SingleShouldBeBase)

\* Variant: the last case answers the identity ordering instead of raising.
IdMatchingNoRaise(base_graph, graph_to_permute) ==
    LET l_base == base_graph.ndim
        l_obj == graph_to_permute.ndim
    IN  IF (l_base = l_obj /\ l_obj = 3) \/ l_base < l_obj
        THEN Returned(PermList(Tabulate(LAMBDA i : Range(Nodes), Len(graph_to_permute.data))))
        ELSE Returned(PermOne(Range(Nodes)))

\* id_matching(base_graph, graph_to_permute)
IdMatching(base_graph, graph_to_permute) ==
    LET l_base == base_graph.ndim
        l_obj == graph_to_permute.ndim
    IN  IF (l_base = l_obj /\ l_obj = 3) \/ l_base < l_obj
        THEN Returned(PermList(Tabulate(LAMBDA i : Range(Nodes), Len(graph_to_permute.data))))
        ELSE IF l_base = l_obj /\ l_obj = 2
        THEN Returned(PermOne(Range(Nodes)))
        ELSE Raised("ValueError", SingleShouldBeBase)

\* What a dist or geodesic call did: its outcome, the collaborators it
\* invoked in order, and the alignment it computed.
Run(o, st, base, target, perm, permuted) ==
    [outcome |-> o, steps |-> st,
     align |-> [base |-> base, target |-> target, perm |-> perm, permuted |-> permuted]]

NoAlign == [base |-> NoArray, target |-> NoArray, perm |-> NoArray, permuted |-> NoArray]

\* Variant: a name that is neither "FAQ" nor "ID" falls back to the identity
\* matcher.
DistDefaultsToId(graph_a, graph_b, matcher, solver) ==
    LET swap == graph_a.ndim > graph_b.ndim
        base_graph == IF swap THEN graph_b ELSE graph_a
        graph_to_permute == IF swap THEN graph_a ELSE graph_b
        faq == matcher = "FAQ"
        matched == IF faq THEN FaqMatching(base_graph, graph_to_permute, solver)
                   ELSE IdMatching(base_graph, graph_to_permute)
        matching == IF faq THEN <<"faq_matching">> ELSE <<"print", "print", "id_matching">>
    IN  IF matched.kind = "raise"
        THEN Run(matched, matching, base_graph, graph_to_permute, NoArray, NoArray)
        ELSE LET permuted == Permute(graph_to_permute, matched.value.data)
             IN  IF permuted.kind = "raise"
                 THEN Run(permuted, matching \o <<"permute">>,
                          base_graph, graph_to_permute, matched.value, NoArray)
                 ELSE Run(MetricDist(base_graph, permuted.value),
                          matching \o <<"permute", "metric.dist">>,
                          base_graph, graph_to_permute, matched.value, permuted.value)

\* dist(graph_a, graph_b, matcher)
Dist(graph_a, graph_b, matcher, solver) ==
    LET swap == graph_a.ndim > graph_b.ndim
        base_graph == IF swap THEN graph_b ELSE graph_a
        graph_to_permute == IF swap THEN graph_a ELSE graph_b
        faq == matcher = "FAQ"
        id == matcher = "ID"
        matched == IF faq THEN FaqMatching(base_graph, graph_to_permute, solver)
                   ELSE IdMatching(base_graph, graph_to_permute)
        matching == IF faq THEN <<"faq_matching">> ELSE <<"print", "print", "id_matching">>
    IN  IF ~faq /\ ~id
        THEN \* perm was never assigned: reading it raises.
             Run(Raised("UnboundLocalError", "local variable 'perm' referenced before assignment"),
                 <<>>, base_graph, graph_to_permute, NoArray, NoArray)
        ELSE IF matched.kind = "raise"
        THEN Run(matched, matching, base_graph, graph_to_permute, NoArray, NoArray)
        ELSE LET permuted == Permute(graph_to_permute, matched.value.data)
             IN  IF permuted.kind = "raise"
                 THEN Run(permuted, matching \o <<"permute">>,
                          base_graph, graph_to_permute, matched.value, NoArray)
                 ELSE Run(MetricDist(base_graph, permuted.value),
                          matching \o <<"permute", "metric.dist">>,
                          base_graph, graph_to_permute, matched.value, permuted.value)

\* Variant: the lower-rank input is made the base, as dist does.
GeodesicLowerRankBase(base_point, end_point, matcher, solver) ==
    LET r == Dist(base_point, end_point, matcher, solver)
    IN  IF r.outcome.kind = "raise" \/ r.align.permuted.ndim < 0
        THEN r
        ELSE Run(MetricGeodesic(r.align.base, r.align.permuted),
                 IF matcher = "FAQ" THEN <<"faq_matching", "permute", "metric.geodesic">>
                 ELSE <<"id_matching", "permute", "metric.geodesic">>,
                 r.align.base, r.align.target, r.align.perm, r.align.permuted)

\* geodesic(base_point, end_point, matcher)
Geodesic(base_point, end_point, matcher, solver) ==
    LET faq == matcher = "FAQ"
        id == matcher = "ID"
        matched == IF faq THEN FaqMatching(base_point, end_point, solver)
                   ELSE IdMatching(base_point, end_point)
        matching == IF faq THEN <<"faq_matching">> ELSE <<"id_matching">>
    IN  IF ~faq /\ ~id
        THEN Run(Raised("UnboundLocalError", "local variable 'perm' referenced before assignment"),
                 <<>>, base_point, end_point, NoArray, NoArray)
        ELSE IF matched.kind = "raise"
        THEN Run(matched, matching, base_point, end_point, NoArray, NoArray)
        ELSE LET permuted == Permute(end_point, matched.value.data)
             IN  IF permuted.kind = "raise"
                 THEN Run(permuted, matching \o <<"permute">>,
                          base_point, end_point, matched.value, NoArray)
                 ELSE Run(MetricGeodesic(base_point, permuted.value),
                          matching \o <<"permute", "metric.geodesic">>,
                          base_point, end_point, matched.value, permuted.value)

----------------------------------------------------------------------------
(* The _graph_vectorize decorator and the operations it wraps.  A Python   *)
(* value is a record [type, value]: a Graph point holds its adjacency      *)
(* matrix, a list or a tuple its items, an ndarray its array.              *)

GraphPoint(adj) == [type |-> "Graph", value |-> adj]
PyList(items) == [type |-> "list", value |-> items]
PyTuple(items) == [type |-> "tuple", value |-> items]
NdArray(a) == [type |-> "ndarray", value |-> a]

\* Values of different type are never equal.
PyEq(x, y) ==
    /\ x.type = y.type
    /\ IF x.type = "ndarray" THEN ArrEq(x.value, y.value) ELSE x.value = y.value

\* gs.array on a list of matrices: the matrices stacked in list order (an
\* empty list gives an empty array of rank 1).
Stack(ms) == IF Len(ms) = 0 THEN Vector(<<>>) ELSE Batch(ms)

\* The receiver of the wrapped methods.
Self == [nodes |-> Nodes]

\* What a wrapped operation was called with; nothing when it was not called.
Passed(args, kwargs) == [kind |-> "call", args |-> args, kwargs |-> kwargs]
NotCalled == [kind |-> "none", args |-> <<>>, kwargs |-> <<>>]

\* Matrices(nodes, nodes).belongs on an array: the shape test, per matrix.
HasShape(m) == Len(m) = Nodes /\ \A i \in 1 .. Len(m) : Len(m[i]) = Nodes
TotalSpaceBelongs(a) ==
    CASE a.ndim = 2 -> Returned(Scalar(HasShape(a.data)))
      [] a.ndim = 3 -> Returned(Vector(Tabulate(LAMBDA i : HasShape(a.data[i]), Len(a.data))))

\* The body of belongs(self, graphs, atol).
Belongs(args, kwargs) == TotalSpaceBelongs(At(args, 1).value)

\* The body of set_to_array(self, points).
SetToArray(args, kwargs) == Returned(At(args, 1))

\* nx.from_numpy_matrix: the graph whose weighted edges are the nonzero entries.
FromNumpyMatrix(m) ==
    [type |-> "networkx",
     value |-> {<<i - 1, j - 1, m[i][j]>> : i, j \in 1 .. Nodes} \ {<<i - 1, j - 1, 0>> : i, j \in 1 .. Nodes}]

\* The body of to_networkx(self, points).
ToNetworkx(args, kwargs) ==
    LET points == At(args, 1)
    IN  IF points.type # "ndarray"
        THEN Raised("AttributeError", "object has no attribute 'shape'")
        ELSE IF points.value.ndim = 2
        THEN Returned(FromNumpyMatrix(points.value.data))
        ELSE Returned(PyList(Tabulate(LAMBDA i : FromNumpyMatrix(points.value.data[i]),
                                      Len(points.value.data))))

\* The body of permute(self, graph_to_permute, permutation).
PermuteBody(args, kwargs) ==
    LET graph_to_permute == At(args, 1)
    IN  IF graph_to_permute.type # "ndarray"
        THEN Raised("AttributeError", "object has no attribute 'shape'")
        ELSE Permute(graph_to_permute.value, At(args, 2))

\* The wrapped method of the given name, called with args and kwargs.
Body(fun, args, kwargs) ==
    CASE fun = "belongs" -> Belongs(args, kwargs)
      [] fun = "set_to_array" -> SetToArray(args, kwargs)
      [] fun = "to_networkx" -> ToNetworkx(args, kwargs)
      [] fun = "permute" -> PermuteBody(args, kwargs)

\* Variant: the adjacency matrices of a list are stacked last to first.
GraphVectorizeReversed(fun, args, kwargs) ==
    LET x == At(args, 1)
        run(a) == [passed |-> Passed(a, kwargs), outcome |-> Body(fun, a, kwargs)]
    IN  IF x.type \notin {"list", "Graph"}
        THEN run(args)
        ELSE IF x.type = "Graph"
        THEN run([args EXCEPT ![2] = NdArray(Single(x.value))])
        ELSE IF \E i \in 1 .. Len(x.value) : x.value[i].type # "Graph"
        THEN [passed |-> NotCalled,
              outcome |-> Raised("AttributeError", "object has no attribute 'adj'")]
        ELSE run([args EXCEPT ![2] =
                 NdArray(Stack(Tabulate(LAMBDA i : x.value[Len(x.value) + 1 - i].value,
                                        Len(x.value))))])

\* _graph_vectorize(fun)(*args, **kwargs): args[1] is replaced according to
\* its type, and fun is called with the resulting arguments.
GraphVectorize(fun, args, kwargs) ==
    LET x == At(args, 1)
        run(a) == [passed |-> Passed(a, kwargs), outcome |-> Body(fun, a, kwargs)]
    IN  IF x.type \notin {"list", "Graph"}
        THEN run(args)
        ELSE IF x.type = "Graph"
        THEN run([args EXCEPT ![2] = NdArray(Single(x.value))])
        ELSE IF \E i \in 1 .. Len(x.value) : x.value[i].type # "Graph"
        THEN [passed |-> NotCalled,
              outcome |-> Raised("AttributeError", "object has no attribute 'adj'")]
        ELSE run([args EXCEPT ![2] =
                 NdArray(Stack(Tabulate(LAMBDA i : x.value[i].value, Len(x.value))))])

----------------------------------------------------------------------------
VARIABLES
    call,       \* the operation called and its arguments
    prev,       \* the permute call whose result the current call received
    outcome,    \* what the call returned or raised
    steps,      \* the collaborators the call invoked, in order
    align       \* the alignment a dist or geodesic call computed

vars == <<call, prev, outcome, steps, align>>

NoCall == [fn |-> "none"]

Init ==
    /\ call = NoCall
    /\ prev = NoCall
    /\ outcome = NoOutcome
    /\ steps = <<>>
    /\ align = NoAlign

\* Matcher names a caller passes; "LAP" is not a matcher of the module.
MatcherNames == {"ID", "FAQ", "LAP"}

\* A matcher name with the behaviour of the solver behind it (only "FAQ"
\* consults the solver).
Matchings ==
    {<<m, Range(Nodes)>> : m \in MatcherNames \ {"FAQ"}} \cup {<<"FAQ", s>> : s \in Perms}

\* Array inputs of rank r.
Arrays(r) ==
    IF r = 2
    THEN {Single(m) : m \in PoolGraphs}
    ELSE UNION {{Batch(ms) : ms \in Batches(k)} : k \in 1 .. MaxBatch}

Items(x) == IF x.ndim = 2 THEN 1 ELSE Len(x.data)

\* permute(G, p) on a single graph.
PermuteSingle ==
    /\ call.fn = "none"
    /\ \E g \in Graphs, p \in Perms :
        /\ call' = [fn |-> "permute", graph |-> Single(g), permutation |-> p]
        /\ outcome' = Permute(Single(g), p)
        /\ steps' = PermuteSteps(Single(g), p)
    /\ UNCHANGED <<prev, align>>

\* permute(batch, perms) on a batch of graphs and a batch of permutations.
PermuteBatch ==
    /\ call.fn = "none"
    /\ \E k, n \in 1 .. MaxBatch :
       \E gs \in Batches(k), ps \in PermBatches(n) :
        /\ call' = [fn |-> "permute", graph |-> Batch(gs), permutation |-> ps]
        /\ outcome' = Permute(Batch(gs), ps)
        /\ steps' = PermuteSteps(Batch(gs), ps)
    /\ UNCHANGED <<prev, align>>

\* permute(permute(G, p), q): the result of a single call is permuted again.
PermuteAgain ==
    /\ call.fn = "permute"
    /\ prev.fn = "none"
    /\ call.graph.ndim = 2
    /\ outcome.kind = "return"
    /\ \E q \in Perms :
        /\ call' = [fn |-> "permute", graph |-> outcome.value, permutation |-> q]
        /\ outcome' = Permute(outcome.value, q)
        /\ steps' = PermuteSteps(outcome.value, q)
    /\ prev' = call
    /\ UNCHANGED align

\* dist(G, permute(G, p), matcher): a graph against its own relabelling.
DistToPermuted ==
    /\ call.fn = "permute"
    /\ prev.fn = "none"
    /\ call.graph.ndim = 2
    /\ outcome.kind = "return"
    /\ \E mm \in Matchings :
        /\ mm[1] \in {"ID", "FAQ"}
        /\ \E r \in {Dist(call.graph, outcome.value, mm[1], mm[2])} :
               /\ call' = [fn |-> "dist", a |-> call.graph, b |-> outcome.value,
                           matcher |-> mm[1], solver |-> mm[2]]
               /\ outcome' = r.outcome
               /\ steps' = r.steps
               /\ align' = r.align
    /\ prev' = call

NextPermute == PermuteSingle \/ PermuteBatch \/ PermuteAgain \/ DistToPermuted

SpecPermute == Init /\ [][NextPermute]_vars

\* dist(graph_a, graph_b, matcher)
DistCall ==
    /\ call.fn = "none"
    /\ \E ra, rb \in {2, 3} : \E a \in Arrays(ra), b \in Arrays(rb), mm \in Matchings :
        /\ Items(a) + Items(b) <= MaxItems
        /\ \E r \in {Dist(a, b, mm[1], mm[2])} :
               /\ call' = [fn |-> "dist", a |-> a, b |-> b,
                           matcher |-> mm[1], solver |-> mm[2]]
               /\ outcome' = r.outcome
               /\ steps' = r.steps
               /\ align' = r.align
    /\ UNCHANGED prev

\* geodesic(base_point, end_point, matcher)
GeodesicCall ==
    /\ call.fn = "none"
    /\ \E ra, rb \in {2, 3} : \E a \in Arrays(ra), b \in Arrays(rb), mm \in Matchings :
        /\ Items(a) + Items(b) <= MaxItems
        /\ \E r \in {Geodesic(a, b, mm[1], mm[2])} :
               /\ call' = [fn |-> "geodesic", a |-> a, b |-> b,
                           matcher |-> mm[1], solver |-> mm[2]]
               /\ outcome' = r.outcome
               /\ steps' = r.steps
               /\ align' = r.align
    /\ UNCHANGED prev

\* id_matching(base_graph, graph_to_permute) called directly.
IdMatchingCall ==
    /\ call.fn = "none"
    /\ \E ra, rb \in {2, 3} : \E a \in Arrays(ra), b \in Arrays(rb) :
        /\ Items(a) + Items(b) <= MaxItems
        /\ call' = [fn |-> "id_matching", a |-> a, b |-> b,
                    matcher |-> "ID", solver |-> Range(Nodes)]
        /\ outcome' = IdMatching(a, b)
    /\ UNCHANGED <<prev, steps, align>>

\* faq_matching(base_graph, graph_to_permute) called directly.
FaqMatchingCall ==
    /\ call.fn = "none"
    /\ \E ra, rb \in {2, 3} : \E a \in Arrays(ra), b \in Arrays(rb), s \in Perms :
        /\ Items(a) + Items(b) <= MaxItems
        /\ call' = [fn |-> "faq_matching", a |-> a, b |-> b,
                    matcher |-> "FAQ", solver |-> s]
        /\ outcome' = FaqMatching(a, b, s)
    /\ UNCHANGED <<prev, steps, align>>

NextGeometry == DistCall \/ GeodesicCall \/ IdMatchingCall \/ FaqMatchingCall

SpecGeometry == Init /\ [][NextGeometry]_vars

\* Graph points, as the wrapped methods accept them.
GraphPoints == {GraphPoint(m) : m \in PoolGraphs}
PointLists(k) == {PyList(Tabulate(LAMBDA i : GraphPoint(ms[i]), k)) : ms \in Batches(k)}
PointTuples(k) == {PyTuple(Tabulate(LAMBDA i : GraphPoint(ms[i]), k)) : ms \in Batches(k)}
ArrayLists(k) == {PyList(Tabulate(LAMBDA i : NdArray(Single(ms[i])), k)) : ms \in Batches(k)}

\* The kinds of value passed as the graph argument.
Kinds == {"Graph", "list", "matrix", "batch", "tuple", "list of arrays"}

\* The values of one kind: Graph points, lists of Graph points, adjacency
\* matrices, batches of them, tuples of Graph points, lists of arrays.
Points(kind) ==
    CASE kind = "Graph" -> GraphPoints
      [] kind = "list" -> UNION {PointLists(k) : k \in 1 .. MaxBatch}
      [] kind = "empty list" -> {PyList(<<>>)}
      [] kind = "matrix" -> {NdArray(a) : a \in Arrays(2)}
      [] kind = "batch" -> {NdArray(a) : a \in Arrays(3)}
      [] kind = "tuple" -> UNION {PointTuples(k) : k \in 1 .. MaxBatch}
      [] kind = "list of arrays" -> UNION {ArrayLists(k) : k \in 1 .. MaxBatch}

\* The number of graphs a value holds.
Count(x) ==
    IF x.type = "Graph" THEN 1
    ELSE IF x.type = "ndarray" THEN Items(x.value)
    ELSE Len(x.value)

\* The permutation arguments that go with a value: one ordering for a single
\* graph, one ordering per graph otherwise.
PermutationArgs(x) ==
    IF x.type = "Graph" \/ (x.type = "ndarray" /\ x.value.ndim = 2)
    THEN Perms
    ELSE PermBatches(Count(x))

\* space.belongs(graphs) and space.belongs(graphs, atol=atol)
BelongsCall ==
    /\ call.fn = "none"
    /\ \E kind \in Kinds \ {"tuple"}, kwargs \in {<<>>, <<<<"atol", 1>>>>} :
       \E x \in Points(kind) :
           \E r \in {GraphVectorize("belongs", <<Self, x>>, kwargs)} :
               /\ call' = [fn |-> "belongs", args |-> <<Self, x>>, kwargs |-> kwargs,
                           passed |-> r.passed]
               /\ outcome' = r.outcome
    /\ UNCHANGED <<prev, steps, align>>

\* space.set_to_array(points)
SetToArrayCall ==
    /\ call.fn = "none"
    /\ \E kind \in Kinds \cup {"empty list"} : \E x \in Points(kind) :
       \E r \in {GraphVectorize("set_to_array", <<Self, x>>, <<>>)} :
        /\ call' = [fn |-> "set_to_array", args |-> <<Self, x>>, kwargs |-> <<>>,
                    passed |-> r.passed]
        /\ outcome' = r.outcome
    /\ UNCHANGED <<prev, steps, align>>

\* space.to_networkx(points)
ToNetworkxCall ==
    /\ call.fn = "none"
    /\ \E kind \in Kinds : \E x \in Points(kind) :
       \E r \in {GraphVectorize("to_networkx", <<Self, x>>, <<>>)} :
        /\ call' = [fn |-> "to_networkx", args |-> <<Self, x>>, kwargs |-> <<>>,
                    passed |-> r.passed]
        /\ outcome' = r.outcome
    /\ UNCHANGED <<prev, steps, align>>

\* space.permute(graph_to_permute, permutation) on Graph points and arrays.
PermutePointsCall ==
    /\ call.fn = "none"
    /\ \E kind \in Kinds : \E x \in Points(kind) : \E p \in PermutationArgs(x) :
       \E r \in {GraphVectorize("permute", <<Self, x, p>>, <<>>)} :
        /\ call' = [fn |-> "permute", args |-> <<Self, x, p>>, kwargs |-> <<>>,
                    passed |-> r.passed]
        /\ outcome' = r.outcome
    /\ UNCHANGED <<prev, steps, align>>

NextVectorize == BelongsCall \/ SetToArrayCall \/ ToNetworkxCall \/ PermutePointsCall

SpecVectorize == Init /\ [][NextVectorize]_vars

----------------------------------------------------------------------------
(* Properties of permute *)

SingleCall == call.fn = "permute" /\ call.graph.ndim = 2
BatchCall == call.fn = "permute" /\ call.graph.ndim = 3
ChainedCall == call.fn = "permute" /\ prev.fn = "permute"

FixtureG == <<<<0, 1, 0>>, <<0, 0, 1>>, <<0, 0, 0>>>>
FixtureP == <<1, 2, 0>>
FixtureCall == SingleCall /\ call.graph.data = FixtureG /\ call.permutation = FixtureP

\* The 0/1 matrix with ones at the coordinates (i, p[i]).
ScatterMatrix(p) ==
    [i \in 1 .. Nodes |-> [j \in 1 .. Nodes |-> IF p[i] = j - 1 THEN 1 ELSE 0]]

\* C1 as stated: permute(G, [1,2,0]) on the fixture graph returns
\* [[0,0,1],[0,0,0],[1,0,0]].
C1_FixtureAsStated ==
    FixtureCall =>
        /\ outcome.kind = "return"
        /\ outcome.value.ndim = 2
        /\ outcome.value.data = <<<<0, 0, 1>>, <<0, 0, 0>>, <<1, 0, 0>>>>

\* C1 amended: permute(G, [1,2,0]) on the fixture graph returns
\* [[0,1,0],[0,0,0],[1,0,0]], which is P G P^T for the matrix P with ones at
\* (i, p[i]).
C1_Fixture ==
    FixtureCall =>
        /\ outcome.kind = "return"
        /\ outcome.value.ndim = 2
        /\ outcome.value.data = <<<<0, 1, 0>>, <<0, 0, 0>>, <<1, 0, 0>>>>
        /\ outcome.value.data =
             MatMul(MatMul(ScatterMatrix(FixtureP), FixtureG),
                    Transpose(ScatterMatrix(FixtureP)))

C1_Witness == FixtureCall /\ prev.fn = "none" /\ outcome.kind = "return"

\* compose(p, q)[i] = q[p[i]]
ComposeThen(p, q) == [i \in 1 .. Nodes |-> At(q, At(p, i - 1))]
\* r[i] = p[q[i]]
ComposeAfter(p, q) == [i \in 1 .. Nodes |-> At(p, At(q, i - 1))]

\* C2 as stated: permute(permute(G, p), q) = permute(G, compose(p, q)) with
\* compose(p, q)[i] = q[p[i]].
C2_GroupActionAsStated ==
    ChainedCall =>
        /\ outcome.kind = "return"
        /\ outcome.value.data =
             Permute(prev.graph, ComposeThen(prev.permutation, call.permutation)).value.data

\* C2 amended: permute(permute(G, p), q) = permute(G, r) for the permutation
\* r[i] = p[q[i]].
C2_GroupAction ==
    ChainedCall =>
        /\ outcome.kind = "return"
        /\ outcome.value.data =
             Permute(prev.graph, ComposeAfter(prev.permutation, call.permutation)).value.data

\* Two permutations that do not commute have acted on a graph on which the
\* two orders of composition differ.
C2_Witness ==
    /\ ChainedCall
    /\ ComposeThen(prev.permutation, call.permutation)
         # ComposeAfter(prev.permutation, call.permutation)
    /\ outcome.value.data
         # Permute(prev.graph, ComposeThen(prev.permutation, call.permutation)).value.data

\* C3: permute with the identity ordering returns the graph entry for entry;
\* in a batch every item paired with the identity ordering is returned equal
\* to its input.
C3_IdentityNoOp ==
    /\ (SingleCall /\ call.permutation = Range(Nodes)) =>
          /\ outcome.kind = "return"
          /\ outcome.value.ndim = 2
          /\ outcome.value.data = call.graph.data
    /\ (BatchCall /\ outcome.kind = "return") =>
          \A i \in 1 .. Len(outcome.value.data) :
              call.permutation[i] = Range(Nodes) =>
                  outcome.value.data[i] = call.graph.data[i]

\* The fixture graph has been permuted by the identity ordering.
C3_Witness ==
    /\ SingleCall
    /\ call.permutation = Range(Nodes)
    /\ call.graph.data = FixtureG
    /\ outcome.kind = "return"

MismatchedCall == BatchCall /\ Len(call.graph.data) # Len(call.permutation)

\* C4: a batch call whose numbers of graphs and permutations differ raises a
\* usage error and returns nothing.
C4_LengthMismatchFails ==
    MismatchedCall => (outcome.kind = "raise" /\ outcome.error = "ValueError")

\* C8: for k graphs and k permutations the batch call returns k matrices,
\* item i being the single-graph result for (batch[i], perms[i]); a single
\* graph returns a single matrix.
C8_BatchingConsistency ==
    /\ (BatchCall /\ Len(call.graph.data) = Len(call.permutation)) =>
          /\ outcome.kind = "return"
          /\ outcome.value.ndim = 3
          /\ Len(outcome.value.data) = Len(call.graph.data)
          /\ \A i \in 1 .. Len(call.graph.data) :
                LET one == Permute(Single(call.graph.data[i]), call.permutation[i])
                IN  one.kind = "return" /\ outcome.value.data[i] = one.value.data
    /\ SingleCall => (outcome.kind = "return" /\ outcome.value.ndim = 2)

\* Two different graphs have been permuted by two different permutations.
C8_Witness ==
    /\ BatchCall
    /\ Len(call.graph.data) = 2
    /\ Len(call.permutation) = 2
    /\ call.graph.data[1] # call.graph.data[2]
    /\ call.permutation[1] # call.permutation[2]
    /\ outcome.kind = "return"
    /\ outcome.value.data[1] # outcome.value.data[2]
    /\ outcome.value.data[1] # call.graph.data[1]

\* The i-th permutation of a permute call.
PermutationAt(i) == IF call.graph.ndim = 2 THEN call.permutation ELSE call.permutation[i]

\* C14: inside permute, a pass of the loop appends the input graph itself,
\* without building a permutation matrix, exactly when its permutation is the
\* identity ordering [0, ..., nodes-1]; every other pass computes the product.
C14_FastPathOnIdentity ==
    call.fn = "permute" =>
        \A i \in 1 .. Len(steps) :
            steps[i] = "graph" <=> PermutationAt(i) = Range(Nodes)

----------------------------------------------------------------------------
(* Properties of the geometry *)

KnownMatcher == call.matcher \in {"ID", "FAQ"}
UnknownMatcherCall == call.fn \in {"dist", "geodesic"} /\ ~KnownMatcher

AlignedGeodesicCall == call.fn = "geodesic" /\ KnownMatcher

SameAlignmentAsDist ==
    \E d \in {Dist(call.a, call.b, call.matcher, call.solver)} :
        /\ ArrEq(align.base, d.align.base)
        /\ ArrEq(align.target, d.align.target)
        /\ ArrEq(align.perm, d.align.perm)
        /\ ArrEq(align.permuted, d.align.permuted)

\* C6 as stated: geodesic makes the lower-rank input the base, so that on the
\* same inputs geodesic and dist permute the same graph by the same
\* permutation.
C6_GeodesicAlignsAsDistAsStated == AlignedGeodesicCall => SameAlignmentAsDist

MatcherStep == IF call.matcher = "FAQ" THEN "faq_matching" ELSE "id_matching"

\* C6 amended: geodesic runs the matcher on (base_point, end_point) in the
\* order given.  When the rank of base_point is at most the rank of end_point
\* it permutes the same graph by the same permutation as dist and only then
\* calls the metric's geodesic from base_point to the permuted end_point;
\* when base_point is a batch and end_point a single graph the matcher's
\* ValueError is raised and nothing is permuted.
C6_GeodesicAlignment ==
    AlignedGeodesicCall =>
        /\ ArrEq(align.base, call.a)
        /\ ArrEq(align.target, call.b)
        /\ call.a.ndim <= call.b.ndim => SameAlignmentAsDist
        /\ outcome.kind = "return" =>
              /\ steps = <<MatcherStep, "permute", "metric.geodesic">>
              /\ outcome.value = Path(call.a, align.permuted)
              /\ ArrEq(align.permuted, Permute(call.b, align.perm.data).value)
        /\ call.a.ndim > call.b.ndim =>
              /\ outcome.kind = "raise"
              /\ outcome.error = "ValueError"
              /\ steps = <<MatcherStep>>
              /\ align.perm.ndim < 0
              /\ align.permuted.ndim < 0

\* A single base point and a batch of two end points have been aligned by a
\* solver answer that moves nodes.
C6_Witness ==
    /\ AlignedGeodesicCall
    /\ call.matcher = "FAQ"
    /\ call.a.ndim = 2
    /\ call.b.ndim = 3
    /\ outcome.kind = "return"
    /\ Len(align.perm.data) = 2
    /\ align.perm.data[1] # Range(Nodes)
    /\ align.permuted.data[1] # call.b.data[1]

MatcherCall == call.fn \in {"id_matching", "faq_matching"}

\* C7: both matchers raise the ValueError that asks for the single graph as
\* the base when the base is a batch and the graph to permute is single, and
\* return a permutation for the rank combinations (2,2), (3,3) and (2,3).
C7_BatchedBaseRejected ==
    MatcherCall =>
        IF call.a.ndim = 3 /\ call.b.ndim = 2
        THEN /\ outcome.kind = "raise"
             /\ outcome.error = "ValueError"
             /\ outcome.message \in {PassSingleAsBase, SingleShouldBeBase}
             /\ outcome.value.ndim < 0
        ELSE /\ outcome.kind = "return"
             /\ outcome.value.ndim = (IF call.b.ndim = 2 THEN 1 ELSE 2)

\* The quadratic-assignment matcher has rejected a batch of two as base.
C7_Witness ==
    /\ call.fn = "faq_matching"
    /\ call.a.ndim = 3
    /\ Len(call.a.data) = 2
    /\ call.b.ndim = 2
    /\ outcome.kind = "raise"

BroadcastCall ==
    /\ call.fn = "dist"
    /\ prev.fn = "none"
    /\ KnownMatcher
    /\ call.a.ndim = 2
    /\ call.b.ndim = 3

\* C9: dist of a single graph S against a batch B returns one distance per
\* item of B, entry i being dist(S, B[i]) of the single-pair call; the
\* identity matcher supplies one identity ordering per item of B.
C9_Broadcast ==
    BroadcastCall =>
        /\ outcome.kind = "return"
        /\ outcome.value.ndim = 1
        /\ Len(outcome.value.data) = Len(call.b.data)
        /\ \A i \in 1 .. Len(call.b.data) :
              \E one \in {Dist(call.a, Single(call.b.data[i]), call.matcher, call.solver)} :
                  /\ one.outcome.kind = "return"
                  /\ one.outcome.value.ndim = 0
                  /\ outcome.value.data[i] = one.outcome.value.data
        /\ call.matcher = "ID" =>
              /\ align.perm.ndim = 2
              /\ Len(align.perm.data) = Len(call.b.data)
              /\ \A i \in 1 .. Len(call.b.data) : align.perm.data[i] = Range(Nodes)

\* A single graph has been compared with a batch of two graphs at different
\* distances from it.
C9_Witness ==
    /\ BroadcastCall
    /\ outcome.kind = "return"
    /\ Len(call.b.data) = 2
    /\ outcome.value.data[1] # outcome.value.data[2]
    /\ outcome.value.data[2] = 0

RecoveryCall == call.fn = "dist" /\ prev.fn = "permute"

\* C10: for dist(G, permute(G, p), matcher): with "FAQ", when the solver
\* answers a maximizer of the overlap, the permuted target is G and the
\* distance is 0; with "ID" the distance is nonzero exactly when
\* permute(G, p) differs from G.
C10_AlignmentRecovery ==
    RecoveryCall =>
        /\ ArrEq(call.a, prev.graph)
        /\ ArrEq(call.b, Permute(prev.graph, prev.permutation).value)
        /\ outcome.kind = "return"
        /\ outcome.value.ndim = 0
        /\ (call.matcher = "FAQ" /\ IsMaximizer(call.a.data, call.b.data, align.perm.data)) =>
              /\ align.permuted.data = call.a.data
              /\ outcome.value.data = 0
        /\ call.matcher = "ID" =>
              (outcome.value.data # 0 <=> call.b.data # call.a.data)

\* The matcher has undone a rotation of the nodes that changed the graph.
C10_Witness ==
    /\ RecoveryCall
    /\ call.matcher = "FAQ"
    /\ prev.permutation = FixtureP
    /\ call.a.data = FixtureG
    /\ call.b.data # call.a.data
    /\ IsMaximizer(call.a.data, call.b.data, align.perm.data)
    /\ align.perm.data # Range(Nodes)
    /\ outcome.value.data = 0

EqualRankIdCall ==
    /\ call.fn = "dist"
    /\ call.matcher = "ID"
    /\ call.a.ndim = call.b.ndim
    /\ call.a.ndim = 3 => Len(call.a.data) = Len(call.b.data)

\* C11: for two inputs of equal rank (two single graphs, or two batches of
\* the same length), dist(A, B, "ID") returns what dist(B, A, "ID") returns.
C11_DistSymmetry ==
    EqualRankIdCall =>
        \E swapped \in {Dist(call.b, call.a, "ID", call.solver)} :
            /\ outcome.kind = "return"
            /\ swapped.outcome.kind = "return"
            /\ ArrEq(outcome.value, swapped.outcome.value)

\* Two batches of two graphs have been compared, the first items being
\* different graphs and the second items equal.
C11_Witness ==
    /\ EqualRankIdCall
    /\ call.a.ndim = 3
    /\ Len(call.a.data) = 2
    /\ call.a.data[1] # call.b.data[1]
    /\ outcome.kind = "return"
    /\ outcome.value.data[1] # 0
    /\ outcome.value.data[2] = 0

SelfCall == call.fn = "dist" /\ call.matcher = "ID" /\ ArrEq(call.a, call.b)

\* C12: dist(G, G, "ID") is 0 for a single graph G, and dist(B, B, "ID") is
\* a vector of zeros of the length of the batch B.
C12_SelfDistanceZero ==
    SelfCall =>
        /\ outcome.kind = "return"
        /\ call.a.ndim = 2 => (outcome.value.ndim = 0 /\ outcome.value.data = 0)
        /\ call.a.ndim = 3 =>
              /\ outcome.value.ndim = 1
              /\ Len(outcome.value.data) = Len(call.a.data)
              /\ \A i \in 1 .. Len(call.a.data) : outcome.value.data[i] = 0

\* A batch of two different graphs, each with an edge, has been compared
\* with itself.
C12_Witness ==
    /\ SelfCall
    /\ call.a.ndim = 3
    /\ Len(call.a.data) = 2
    /\ call.a.data[1] # call.a.data[2]
    /\ EdgeCount(call.a.data[1]) > 0
    /\ EdgeCount(call.a.data[2]) > 0
    /\ outcome.kind = "return"
    /\ outcome.value.ndim = 1

----------------------------------------------------------------------------
(* Properties of the input normalization *)

VectorizedCall == call.fn \in {"belongs", "set_to_array", "to_networkx", "permute"}

\* The value passed as the graph argument, and the one the operation received.
GivenPoint == At(call.args, 1)
PassedPoint == At(call.passed.args, 1)

ListOfGraphs(x) == x.type = "list" /\ \A i \in 1 .. Len(x.value) : x.value[i].type = "Graph"

\* C13: belongs, set_to_array, to_networkx and permute receive the adjacency
\* matrix of a single Graph point, the adjacency matrices of a list of k Graph
\* points stacked in list order, and any value that is neither a list nor a
\* Graph unchanged; set_to_array returns the value it received, and every
\* other argument reaches the operation as it was passed.
C13_InputNormalization ==
    VectorizedCall =>
        /\ GivenPoint.type = "Graph" =>
              /\ call.passed.kind = "call"
              /\ PyEq(PassedPoint, NdArray(Single(GivenPoint.value)))
        /\ ListOfGraphs(GivenPoint) =>
              /\ call.passed.kind = "call"
              /\ PassedPoint.type = "ndarray"
              /\ Len(GivenPoint.value) > 0 => PassedPoint.value.ndim = 3
              /\ Len(PassedPoint.value.data) = Len(GivenPoint.value)
              /\ \A i \in 1 .. Len(GivenPoint.value) :
                    PassedPoint.value.data[i] = GivenPoint.value[i].value
        /\ GivenPoint.type \notin {"list", "Graph"} =>
              /\ call.passed.kind = "call"
              /\ PyEq(PassedPoint, GivenPoint)
        /\ call.passed.kind = "call" =>
              /\ Len(call.passed.args) = Len(call.args)
              /\ call.passed.args[1] = call.args[1]
              /\ \A i \in 3 .. Len(call.args) : call.passed.args[i] = call.args[i]
              /\ call.passed.kwargs = call.kwargs
              /\ call.fn = "set_to_array" =>
                    /\ outcome.kind = "return"
                    /\ PyEq(outcome.value, PassedPoint)

\* set_to_array has returned the stacked adjacency matrices of a list of two
\* Graph points with different adjacency matrices.
C13_Witness ==
    /\ call.fn = "set_to_array"
    /\ ListOfGraphs(GivenPoint)
    /\ Len(GivenPoint.value) = 2
    /\ GivenPoint.value[1].value # GivenPoint.value[2].value
    /\ outcome.kind = "return"
    /\ outcome.value.type = "ndarray"
    /\ outcome.value.value.data[1] = GivenPoint.value[1].value
    /\ outcome.value.value.data[2] = GivenPoint.value[2].value

====
